---- MODULE Spec2Model ----
(***************************************************************************)
(* Model of src/query/query_visitor.rs: the QueryVisitor trait (13 hooks   *)
(* with default no-op bodies) and the walk_* functions that drive a        *)
(* visitor over a query syntax tree.                                       *)
(*                                                                         *)
(* The recursive descent is modelled with an explicit call stack.  A frame *)
(* is one activation of a walk_* function on a borrowed node; the body of  *)
(* a walk_* function on a node is the sequence of its statements (a hook   *)
(* invocation or a call of another walk_* function), and one step executes *)
(* the next statement of the innermost activation.  A function returns as  *)
(* soon as its last statement has completed.                               *)
(***************************************************************************)
EXTENDS Naturals, Sequences, FiniteSets

VARIABLES doc, visitor, stack, trace

vars == <<doc, visitor, stack, trace>>

(***************************************************************************)
(* Bounds of the model.                                                    *)
(***************************************************************************)
MaxDefs == 2

MaxVars == 2

MaxItems == 2

MaxDepth == 2

MaxStack == 16

(***************************************************************************)
(* The syntax tree (super::ast).  A node is a record; kind names the node  *)
(* type, variant the variant of a union-typed node, inner the node it      *)
(* wraps.                                                                  *)
(***************************************************************************)
Document(definitions) ==
  [kind |-> "Document", definitions |-> definitions]

Definition(variant, inner) ==
  [kind |-> "Definition", variant |-> variant, inner |-> inner]

FragmentDefinition(name, selection_set) ==
  [kind |-> "FragmentDefinition", name |-> name, selection_set |-> selection_set]

OperationDefinition(variant, inner) ==
  [kind |-> "OperationDefinition", variant |-> variant, inner |-> inner]

Query(name, variable_definitions, selection_set) ==
  [kind |-> "Query", name |-> name,
   variable_definitions |-> variable_definitions, selection_set |-> selection_set]

Mutation(name, variable_definitions, selection_set) ==
  [kind |-> "Mutation", name |-> name,
   variable_definitions |-> variable_definitions, selection_set |-> selection_set]

Subscription(name, variable_definitions, selection_set) ==
  [kind |-> "Subscription", name |-> name,
   variable_definitions |-> variable_definitions, selection_set |-> selection_set]

SelectionSet(items) ==
  [kind |-> "SelectionSet", items |-> items]

VariableDefinition(name) ==
  [kind |-> "VariableDefinition", name |-> name]

Selection(variant, inner) ==
  [kind |-> "Selection", variant |-> variant, inner |-> inner]

Field(name, selection_set) ==
  [kind |-> "Field", name |-> name, selection_set |-> selection_set]

FragmentSpread(fragment_name) ==
  [kind |-> "FragmentSpread", fragment_name |-> fragment_name]

InlineFragment(selection_set) ==
  [kind |-> "InlineFragment", selection_set |-> selection_set]

(***************************************************************************)
(* The structural children of a node, in declared order.  A node is        *)
(* identified by its path: the child indexes leading to it from the        *)
(* Document.                                                               *)
(***************************************************************************)
Children(node) ==
  CASE node.kind = "Document" -> node.definitions
    [] node.kind \in {"Definition", "OperationDefinition", "Selection"} -> <<node.inner>>
    [] node.kind \in {"Query", "Mutation", "Subscription"} ->
         node.variable_definitions \o <<node.selection_set>>
    [] node.kind \in {"FragmentDefinition", "InlineFragment", "Field"} ->
         <<node.selection_set>>
    [] node.kind = "SelectionSet" -> node.items
    [] OTHER -> <<>>

RECURSIVE NodeAt(_, _)
NodeAt(node, path) ==
  IF path = <<>> THEN node ELSE NodeAt(Children(node)[Head(path)], Tail(path))

(***************************************************************************)
(* The documents walked.  A bounded family of documents of regular shape:  *)
(* nd definitions whose variants cycle from offset kd, every typed         *)
(* operation with nv variable definitions, every selection set with ns     *)
(* items whose variants repeat pattern ks, nested to depth d.  The         *)
(* documents of the module documentation and of the specification's        *)
(* scenarios are added to it.                                              *)
(***************************************************************************)
DefinitionVariants == <<"SelectionSet", "Query", "Mutation", "Subscription", "Fragment">>

\* The variants of the items of a selection set repeat one of these patterns.
SelectionPatterns ==
  << <<"Field", "FragmentSpread", "InlineFragment">>,
     <<"FragmentSpread", "InlineFragment", "Field">>,
     <<"InlineFragment", "Field", "FragmentSpread">>,
     <<"Field">> >>

FieldNames == <<"a", "b", "c">>

VariableNames == <<"x", "y", "z">>

Cycle(seq, k, i) == seq[((k + i - 1) % Len(seq)) + 1]

RECURSIVE SelectionSetOf(_, _, _)
SelectionSetOf(ns, ks, d) ==
  SelectionSet(
    [i \in 1..(IF d = 0 THEN 0 ELSE ns) |->
       LET variant == Cycle(SelectionPatterns[ks], 0, i)
           nested == SelectionSetOf(ns, ks, d - 1)
       IN  Selection(variant,
             CASE variant = "Field" -> Field(Cycle(FieldNames, 0, i), nested)
               [] variant = "FragmentSpread" -> FragmentSpread("F")
               [] variant = "InlineFragment" -> InlineFragment(nested))])

VariableDefinitionsOf(nv) ==
  [i \in 1..nv |-> VariableDefinition(Cycle(VariableNames, 0, i))]

DefinitionOf(variant, nv, selection_set) ==
  CASE variant = "Fragment" ->
         Definition("Fragment", FragmentDefinition("F", selection_set))
    [] variant = "SelectionSet" ->
         Definition("Operation", OperationDefinition("SelectionSet", selection_set))
    [] variant = "Query" ->
         Definition("Operation", OperationDefinition("Query",
           Query("Q", VariableDefinitionsOf(nv), selection_set)))
    [] variant = "Mutation" ->
         Definition("Operation", OperationDefinition("Mutation",
           Mutation("M", VariableDefinitionsOf(nv), selection_set)))
    [] variant = "Subscription" ->
         Definition("Operation", OperationDefinition("Subscription",
           Subscription("S", VariableDefinitionsOf(nv), selection_set)))

DocumentOf(nd, kd, nv, ns, ks, d) ==
  Document([i \in 1..nd |->
    DefinitionOf(Cycle(DefinitionVariants, kd, i), nv, SelectionSetOf(ns, ks, d))])

BoundedDocuments ==
  { DocumentOf(nd, kd, nv, ns, ks, d) :
      nd \in 0..MaxDefs, kd \in 0..(Len(DefinitionVariants) - 1), nv \in 0..MaxVars,
      ns \in 0..MaxItems, ks \in 1..Len(SelectionPatterns), d \in 0..MaxDepth }

LeafField(name) == Selection("Field", Field(name, SelectionSet(<<>>)))

\* query <name> { users { id country { id } } }
UsersQueryDoc(name) ==
  Document(<<
    Definition("Operation", OperationDefinition("Query",
      Query(name, <<>>, SelectionSet(<<
        Selection("Field", Field("users", SelectionSet(<<
          LeafField("id"),
          Selection("Field", Field("country", SelectionSet(<<LeafField("id")>>)))
        >>)))
      >>)))) >>)

\* { a b c }
AbcDoc ==
  Document(<<
    Definition("Operation", OperationDefinition("SelectionSet",
      SelectionSet(<<LeafField("a"), LeafField("b"), LeafField("c")>>))) >>)

\* { a }  query Q($x) { a b ...F }  mutation M { ... on T { b } }
\* subscription S { c }  fragment F on T { a }
EveryVariantDoc ==
  Document(<<
    Definition("Operation", OperationDefinition("SelectionSet",
      SelectionSet(<<LeafField("a")>>))),
    Definition("Operation", OperationDefinition("Query",
      Query("Q", <<VariableDefinition("x")>>,
        SelectionSet(<<LeafField("a"), LeafField("b"),
                       Selection("FragmentSpread", FragmentSpread("F"))>>)))),
    Definition("Operation", OperationDefinition("Mutation",
      Mutation("M", <<>>,
        SelectionSet(<<Selection("InlineFragment",
          InlineFragment(SelectionSet(<<LeafField("b")>>)))>>)))),
    Definition("Operation", OperationDefinition("Subscription",
      Subscription("S", <<>>, SelectionSet(<<LeafField("c")>>)))),
    Definition("Fragment", FragmentDefinition("F", SelectionSet(<<LeafField("a")>>))) >>)

ExampleDocuments == {UsersQueryDoc("Q"), UsersQueryDoc("TestQuery"), AbcDoc, EveryVariantDoc}

Documents == BoundedDocuments \cup ExampleDocuments

(***************************************************************************)
(* Visitors.  A visitor is a value implementing QueryVisitor; its state is *)
(* a counter and a list of names.  Every hook that an implementation does  *)
(* not override has the trait's default body, which does nothing.          *)
(***************************************************************************)
HookNames ==
  {"visit_document", "visit_definition", "visit_fragment_definition",
   "visit_operation_definition", "visit_query", "visit_mutation",
   "visit_subscription", "visit_selection_set", "visit_variable_definition",
   "visit_selection", "visit_field", "visit_fragment_spread",
   "visit_inline_fragment"}

VisitorKinds == {"NoOp", "AllHooksCounter", "FieldsCounter", "FieldNameRecorder"}

NewVisitor(kind) == [kind |-> kind, count |-> 0, names |-> <<>>]

\* A default body that is not empty: it counts the invocation.
default_visit_Counting(self, node) == [self EXCEPT !.count = @ + 1]

\* The default body of every hook of the trait: {}.
default_visit(self, node) == self

\* impl QueryVisitor for FieldsCounter: visit_field does self.count += 1.
FieldsCounter_visit_field(self, node) == [self EXCEPT !.count = @ + 1]

\* A visitor with every hook overridden to increment one counter.
AllHooksCounter_visit(self, node) == [self EXCEPT !.count = @ + 1]

\* A visitor whose visit_field records the field's name.
FieldNameRecorder_visit_field(self, node) == [self EXCEPT !.names = Append(@, node.name)]

\* visitor.<hook>(node): the implementation's override, or the default body.
CallHook(self, hook, node) ==
  CASE self.kind = "AllHooksCounter" -> AllHooksCounter_visit(self, node)
    [] self.kind = "FieldsCounter" /\ hook = "visit_field" ->
         FieldsCounter_visit_field(self, node)
    [] self.kind = "FieldNameRecorder" /\ hook = "visit_field" ->
         FieldNameRecorder_visit_field(self, node)
    [] OTHER -> default_visit(self, node)

(***************************************************************************)
(* The walk_* functions.  The body of each, on a node at a path, as the    *)
(* sequence of its statements: Hook is visitor.<name>(node), Call is       *)
(* <name>(visitor, node).                                                  *)
(***************************************************************************)
Hook(name, node, path) == [op |-> "hook", name |-> name, node |-> node, path |-> path]

Call(name, node, path) == [op |-> "call", name |-> name, node |-> node, path |-> path]

\* for x in &seq { fn(visitor, x) }, the elements being the children from
\* index first of the node at path.
ForEach(fn, seq, path, first) ==
  [i \in 1..Len(seq) |-> Call(fn, seq[i], path \o <<first + i - 1>>)]

walk_document(v, node, path) ==
  <<Hook("visit_document", node, path)>>
  \o ForEach("walk_definition", node.definitions, path, 1)

walk_definition(v, node, path) ==
  <<Hook("visit_definition", node, path),
    CASE node.variant = "Operation" ->
           Call("walk_operation_definition", node.inner, path \o <<1>>)
      [] node.variant = "Fragment" ->
           Call("walk_fragment_definition", node.inner, path \o <<1>>)>>

walk_fragment_definition(v, node, path) ==
  <<Call("walk_selection_set", node.selection_set, path \o <<1>>)>>

walk_operation_definition(v, node, path) ==
  <<Hook("visit_operation_definition", node, path),
    CASE node.variant = "SelectionSet" ->
           Call("walk_selection_set", node.inner, path \o <<1>>)
      [] node.variant = "Query" ->
           Call("walk_query", node.inner, path \o <<1>>)
      [] node.variant = "Mutation" ->
           Call("walk_mutation", node.inner, path \o <<1>>)
      [] node.variant = "Subscription" ->
           Call("walk_subscription", node.inner, path \o <<1>>)>>

walk_query(v, node, path) ==
  <<Hook("visit_query", node, path)>>
  \o ForEach("walk_variable_definition", node.variable_definitions, path, 1)
  \o <<Call("walk_selection_set", node.selection_set,
            path \o <<Len(node.variable_definitions) + 1>>)>>

walk_mutation(v, node, path) ==
  <<Hook("visit_mutation", node, path)>>
  \o ForEach("walk_variable_definition", node.variable_definitions, path, 1)
  \o <<Call("walk_selection_set", node.selection_set,
            path \o <<Len(node.variable_definitions) + 1>>)>>

walk_subscription(v, node, path) ==
  <<Hook("visit_subscription", node, path)>>
  \o ForEach("walk_variable_definition", node.variable_definitions, path, 1)
  \o <<Call("walk_selection_set", node.selection_set,
            path \o <<Len(node.variable_definitions) + 1>>)>>

Reverse(seq) == [i \in 1..Len(seq) |-> seq[Len(seq) + 1 - i]]

\* The items are walked last to first.
walk_selection_set_Reversed(v, node, path) ==
  <<Hook("visit_selection_set", node, path)>>
  \o Reverse(ForEach("walk_selection", node.items, path, 1))

\* The items are walked only while the visitor's counter is even: the hooks
\* decide how far the walk goes.
walk_selection_set_Pruning(v, node, path) ==
  <<Hook("visit_selection_set", node, path)>>
  \o (IF v.count % 2 = 1 THEN <<>> ELSE ForEach("walk_selection", node.items, path, 1))

walk_selection_set(v, node, path) ==
  <<Hook("visit_selection_set", node, path)>>
  \o ForEach("walk_selection", node.items, path, 1)

walk_variable_definition(v, node, path) ==
  <<Hook("visit_variable_definition", node, path)>>

\* The FragmentSpread arm of the match is empty.
walk_selection_SkipsSpread(v, node, path) ==
  <<Hook("visit_selection", node, path)>>
  \o CASE node.variant = "Field" ->
            <<Call("walk_field", node.inner, path \o <<1>>)>>
       [] node.variant = "FragmentSpread" -> <<>>
       [] node.variant = "InlineFragment" ->
            <<Call("walk_inline_fragment", node.inner, path \o <<1>>)>>

walk_selection(v, node, path) ==
  <<Hook("visit_selection", node, path),
    CASE node.variant = "Field" ->
           Call("walk_field", node.inner, path \o <<1>>)
      [] node.variant = "FragmentSpread" ->
           Call("walk_fragment_spread", node.inner, path \o <<1>>)
      [] node.variant = "InlineFragment" ->
           Call("walk_inline_fragment", node.inner, path \o <<1>>)>>

walk_field(v, node, path) ==
  <<Hook("visit_field", node, path)>>

walk_fragment_spread(v, node, path) ==
  <<Hook("visit_fragment_spread", node, path)>>

\* The selection set is walked before the inline fragment's own hook.
walk_inline_fragment_PostOrder(v, node, path) ==
  <<Call("walk_selection_set", node.selection_set, path \o <<1>>),
    Hook("visit_inline_fragment", node, path)>>

\* The function calls itself on its own node instead of the selection set.
walk_inline_fragment_SelfRecursive(v, node, path) ==
  <<Hook("visit_inline_fragment", node, path),
    Call("walk_inline_fragment", node, path)>>

walk_inline_fragment(v, node, path) ==
  <<Hook("visit_inline_fragment", node, path),
    Call("walk_selection_set", node.selection_set, path \o <<1>>)>>

\* The statements of the activation frame.
Body(v, frame) ==
  CASE frame.fn = "walk_document" -> walk_document(v, frame.node, frame.path)
    [] frame.fn = "walk_definition" -> walk_definition(v, frame.node, frame.path)
    [] frame.fn = "walk_fragment_definition" ->
         walk_fragment_definition(v, frame.node, frame.path)
    [] frame.fn = "walk_operation_definition" ->
         walk_operation_definition(v, frame.node, frame.path)
    [] frame.fn = "walk_query" -> walk_query(v, frame.node, frame.path)
    [] frame.fn = "walk_mutation" -> walk_mutation(v, frame.node, frame.path)
    [] frame.fn = "walk_subscription" -> walk_subscription(v, frame.node, frame.path)
    [] frame.fn = "walk_selection_set" -> walk_selection_set(v, frame.node, frame.path)
    [] frame.fn = "walk_variable_definition" ->
         walk_variable_definition(v, frame.node, frame.path)
    [] frame.fn = "walk_selection" -> walk_selection(v, frame.node, frame.path)
    [] frame.fn = "walk_field" -> walk_field(v, frame.node, frame.path)
    [] frame.fn = "walk_fragment_spread" ->
         walk_fragment_spread(v, frame.node, frame.path)
    [] frame.fn = "walk_inline_fragment" ->
         walk_inline_fragment(v, frame.node, frame.path)

(***************************************************************************)
(* The call stack.  The innermost activation is the last frame; pc is the  *)
(* index of its next statement.                                            *)
(***************************************************************************)
Frame(fn, node, path) == [fn |-> fn, node |-> node, path |-> path, pc |-> 1]

Top(s) == s[Len(s)]

\* The statement just executed is complete: the activation moves on to its next one.
Advance(s) == [s EXCEPT ![Len(s)].pc = @ + 1]

\* Every activation with no statement left returns to its caller: the
\* innermost activation that remains is the last frame, at or below frame k,
\* with a statement left.
RECURSIVE Remaining(_, _, _)
Remaining(v, s, k) ==
  IF k = 0 THEN 0
  ELSE IF s[k].pc <= Len(Body(v, s[k])) THEN k
  ELSE Remaining(v, s, k - 1)

Return(v, s) == SubSeq(s, 1, Remaining(v, s, Len(s)))

Done(w) == stack[w] = <<>>

\* The walks of one program run one after the other.
Running(w) ==
  /\ ~Done(w)
  /\ \A u \in DOMAIN stack : u < w => Done(u)

\* The next statement of the innermost activation of walker w, which is in fn.
Exec(w, fn) ==
  /\ Running(w)
  /\ Top(stack[w]).fn = fn
  /\ LET top == Top(stack[w])
         stmt == Body(visitor[w], top)[top.pc]
     IN  IF stmt.op = "hook"
         THEN LET after == CallHook(visitor[w], stmt.name, stmt.node)
              IN  /\ visitor' = [visitor EXCEPT ![w] = after]
                  /\ trace' = [trace EXCEPT
                                 ![w] = Append(@, [hook |-> stmt.name, path |-> stmt.path])]
                  /\ stack' = [stack EXCEPT ![w] = Return(after, Advance(@))]
         ELSE /\ Len(stack[w]) < MaxStack
              /\ stack' = [stack EXCEPT
                             ![w] = Append(Advance(@), Frame(stmt.name, stmt.node, stmt.path))]
              /\ UNCHANGED <<visitor, trace>>
  /\ UNCHANGED doc

WalkDocument == \E w \in DOMAIN stack : Exec(w, "walk_document")

WalkDefinition == \E w \in DOMAIN stack : Exec(w, "walk_definition")

WalkFragmentDefinition == \E w \in DOMAIN stack : Exec(w, "walk_fragment_definition")

WalkOperationDefinition == \E w \in DOMAIN stack : Exec(w, "walk_operation_definition")

WalkQuery == \E w \in DOMAIN stack : Exec(w, "walk_query")

WalkMutation == \E w \in DOMAIN stack : Exec(w, "walk_mutation")

WalkSubscription == \E w \in DOMAIN stack : Exec(w, "walk_subscription")

WalkSelectionSet == \E w \in DOMAIN stack : Exec(w, "walk_selection_set")

WalkVariableDefinition == \E w \in DOMAIN stack : Exec(w, "walk_variable_definition")

WalkSelection == \E w \in DOMAIN stack : Exec(w, "walk_selection")

WalkField == \E w \in DOMAIN stack : Exec(w, "walk_field")

WalkFragmentSpread == \E w \in DOMAIN stack : Exec(w, "walk_fragment_spread")

WalkInlineFragment == \E w \in DOMAIN stack : Exec(w, "walk_inline_fragment")

\* walk_document(&mut visitor, &doc) has been called for every walker in ws,
\* each with a freshly constructed visitor.
InitWalks(ws) ==
  /\ doc \in Documents
  /\ visitor \in [ws -> {NewVisitor(k) : k \in VisitorKinds}]
  /\ stack = [w \in ws |-> <<Frame("walk_document", doc, <<>>)>>]
  /\ trace = [w \in ws |-> <<>>]

Init == InitWalks({1})

Next ==
  \/ WalkDocument
  \/ WalkDefinition
  \/ WalkFragmentDefinition
  \/ WalkOperationDefinition
  \/ WalkQuery
  \/ WalkMutation
  \/ WalkSubscription
  \/ WalkSelectionSet
  \/ WalkVariableDefinition
  \/ WalkSelection
  \/ WalkField
  \/ WalkFragmentSpread
  \/ WalkInlineFragment

Spec == Init /\ [][Next]_vars

\* The same document walked twice, by two visitors constructed independently:
\* any visitor, then a counting one.
CountingKinds == {"AllHooksCounter", "FieldsCounter"}

InitTwo ==
  /\ InitWalks({1, 2})
  /\ visitor[2].kind \in CountingKinds

SpecTwo == InitTwo /\ [][Next]_vars

\* The walk is one synchronous chain of plain function calls: while a
\* statement is left to execute, one is executed.
SpecLive == Init /\ [][Next]_vars /\ WF_vars(Next)

(***************************************************************************)
(* Observations used by the properties.  The trace of walker 1 is the      *)
(* sequence of hook invocations (hook, node) of its walk.                  *)
(***************************************************************************)
IsPrefix(p, q) == Len(p) <= Len(q) /\ SubSeq(q, 1, Len(p)) = p

IsStrictPrefix(p, q) == Len(p) < Len(q) /\ SubSeq(q, 1, Len(p)) = p

Parent(p) == SubSeq(p, 1, Len(p) - 1)

HooksInvoked(w) == {trace[w][i].hook : i \in 1..Len(trace[w])}

Invocations(w, hook) == Cardinality({i \in 1..Len(trace[w]) : trace[w][i].hook = hook})

\* The nodes of the tree below and including node.  A Field written without
\* braces has no selection set of its own.
TreeChildren(node) ==
  IF node.kind = "Field" /\ node.selection_set.items = <<>> THEN <<>> ELSE Children(node)

RECURSIVE NodeCount(_)
NodeCount(node) ==
  LET ch == TreeChildren(node)
      RECURSIVE Sum(_)
      Sum(i) == IF i = 0 THEN 0 ELSE NodeCount(ch[i]) + Sum(i - 1)
  IN  1 + Sum(Len(ch))

\* The node variants occurring in the tree below and including node.
RECURSIVE VariantsIn(_)
VariantsIn(node) ==
  LET ch == TreeChildren(node)
      own == IF node.kind = "OperationDefinition" /\ node.variant = "SelectionSet"
             THEN {"BareSelectionSet"} ELSE {node.kind}
  IN  own \cup UNION {VariantsIn(ch[i]) : i \in 1..Len(ch)}

EveryVariant ==
  {"BareSelectionSet", "Query", "Mutation", "Subscription", "FragmentDefinition",
   "InlineFragment", "FragmentSpread", "Field", "VariableDefinition"}

(***************************************************************************)
(* C1.  A visitor whose every hook increments one counter ends the walk of *)
(* a document with the counter equal to the number of nodes of the         *)
(* document's tree: one hook invocation per node.                          *)
(* The walk does not satisfy it: walk_fragment_definition never invokes    *)
(* visit_fragment_definition, and walk_field does not descend into the     *)
(* field's selection set.                                                  *)
(***************************************************************************)
C1_CounterEqualsNodeCount ==
  (Done(1) /\ visitor[1].kind = "AllHooksCounter")
    => visitor[1].count = NodeCount(doc)

(***************************************************************************)
(* C2.  For query Q { users { id country { id } } } a visitor counting     *)
(* fields ends the walk with a count of 4.                                 *)
(* The walk does not satisfy it: only users is visited.                    *)
(***************************************************************************)
C2_UsersQueryCountsFourFields ==
  (Done(1) /\ doc = UsersQueryDoc("Q") /\ visitor[1].kind = "FieldsCounter")
    => visitor[1].count = 4

(***************************************************************************)
(* C3.  The example of the module documentation: for                       *)
(* query TestQuery { users { id country { id } } } the FieldsCounter ends   *)
(* the walk with count = 2.                                                *)
(* The walk does not satisfy it: the count is 1.                           *)
(***************************************************************************)
C3_DocExampleCountsTwoFields ==
  (Done(1) /\ doc = UsersQueryDoc("TestQuery") /\ visitor[1].kind = "FieldsCounter")
    => visitor[1].count = 2

(***************************************************************************)
(* C4.  The walk of a document that contains every node variant, by a      *)
(* visitor overriding every hook, invokes each of the 13 hooks at least    *)
(* once.                                                                   *)
(* The walk does not satisfy it: visit_fragment_definition is never        *)
(* invoked.                                                                *)
(***************************************************************************)
C4_EveryHookInvoked ==
  (Done(1) /\ visitor[1].kind = "AllHooksCounter" /\ EveryVariant \subseteq VariantsIn(doc))
    => HooksInvoked(1) = HookNames

(***************************************************************************)
(* Every prefix of a walk's trace is the trace of an earlier state of the  *)
(* walk, so a property stated in every state of the latest invocation      *)
(* against all earlier ones is stated of every pair of invocations.        *)
(***************************************************************************)
Latest(w) == trace[w][Len(trace[w])]

\* The length of the longest common prefix of two paths.
CommonPrefixLen(p, q) ==
  Cardinality({k \in 1..Len(p) : k <= Len(q) /\ SubSeq(p, 1, k) = SubSeq(q, 1, k)})

\* The hook of an earlier invocation on p was not due after the one on q:
\* q is no ancestor of p.
AncestorFirst(p, q) == ~IsStrictPrefix(q, p)

\* p and q lie in the subtrees of two different children of their closest
\* common ancestor: the subtree of p is that of the earlier sibling.
SiblingSubtreesInOrder(p, q) ==
  LET c == CommonPrefixLen(p, q)
  IN  (Len(p) > c /\ Len(q) > c) => p[c + 1] < q[c + 1]

(***************************************************************************)
(* C5.  The walk is pre-order and depth-first with no interleaving: the    *)
(* hook of a node is invoked before the hook of every visited descendant   *)
(* of it, and every hook invocation in the subtree of a sibling comes      *)
(* before every hook invocation in the subtree of a later sibling.         *)
(***************************************************************************)
C5_PreOrderDepthFirst ==
  \A i \in 1..(Len(trace[1]) - 1) :
    /\ AncestorFirst(trace[1][i].path, Latest(1).path)
    /\ SiblingSubtreesInOrder(trace[1][i].path, Latest(1).path)

\* An inline fragment's hook, then a field inside its selection set, then
\* an invocation outside the inline fragment; the walk has completed.
C5_Witness ==
  /\ Done(1)
  /\ \E i, j, k \in 1..Len(trace[1]) :
       /\ i < j /\ j < k
       /\ trace[1][i].hook = "visit_inline_fragment"
       /\ trace[1][j].hook = "visit_field"
       /\ IsStrictPrefix(trace[1][i].path, trace[1][j].path)
       /\ ~IsPrefix(trace[1][i].path, trace[1][k].path)

(***************************************************************************)
(* The hook invocations on the children of the node at path p, in the      *)
(* order of the trace, and the ones the declaration order of the children  *)
(* of a container asks for.                                                *)
(***************************************************************************)
ChildInvocations(w, p) ==
  LET IsChild(e) == Len(e.path) = Len(p) + 1 /\ Parent(e.path) = p
  IN  SelectSeq(trace[w], IsChild)

Containers == {"Document", "Query", "Mutation", "Subscription", "SelectionSet"}

DeclaredChildInvocations(node, p) ==
  CASE node.kind = "Document" ->
         [i \in 1..Len(node.definitions) |->
            [hook |-> "visit_definition", path |-> p \o <<i>>]]
    [] node.kind \in {"Query", "Mutation", "Subscription"} ->
         [i \in 1..Len(node.variable_definitions) |->
            [hook |-> "visit_variable_definition", path |-> p \o <<i>>]]
         \o <<[hook |-> "visit_selection_set",
               path |-> p \o <<Len(node.variable_definitions) + 1>>]>>
    [] node.kind = "SelectionSet" ->
         [i \in 1..Len(node.items) |->
            [hook |-> "visit_selection", path |-> p \o <<i>>]]

\* The names of the items of a selection set that are fields, in declared order.
RECURSIVE DeclaredFieldNames(_)
DeclaredFieldNames(items) ==
  IF items = <<>> THEN <<>>
  ELSE (IF Head(items).variant = "Field" THEN <<Head(items).inner.name>> ELSE <<>>)
       \o DeclaredFieldNames(Tail(items))

\* The names seen by visit_field, in the order of the trace: in the whole
\* walk, and directly in the selection set at path p.
VisitedFieldNames(w) ==
  LET IsField(e) == e.hook = "visit_field"
      seen == SelectSeq(trace[w], IsField)
  IN  [k \in 1..Len(seen) |-> NodeAt(doc, seen[k].path).name]

VisitedFieldNamesOf(w, p) ==
  LET IsFieldOf(e) == e.hook = "visit_field" /\ Len(e.path) = Len(p) + 2
                      /\ SubSeq(e.path, 1, Len(p)) = p
      seen == SelectSeq(trace[w], IsFieldOf)
  IN  [k \in 1..Len(seen) |-> NodeAt(doc, seen[k].path).name]

(***************************************************************************)
(* C6.  Children are visited in declaration order: the definitions of the  *)
(* document in sequence order; the variable definitions of a query,        *)
(* mutation or subscription in sequence order and only then its selection  *)
(* set; the items of a selection set in sequence order.  A visitor         *)
(* recording the names seen by visit_field records the fields of a         *)
(* selection set in their declared order: [a, b, c] for { a b c }.         *)
(***************************************************************************)
C6_DeclarationOrder ==
  /\ trace[1] # <<>> /\ Latest(1).path # <<>> =>
       LET p == Parent(Latest(1).path)
           node == NodeAt(doc, p)
       IN  node.kind \in Containers =>
             IsPrefix(ChildInvocations(1, p), DeclaredChildInvocations(node, p))
  /\ Done(1) =>
       \A i \in 1..Len(trace[1]) :
         LET p == trace[1][i].path
             node == NodeAt(doc, p)
         IN  node.kind \in Containers =>
               ChildInvocations(1, p) = DeclaredChildInvocations(node, p)
  /\ visitor[1].kind = "FieldNameRecorder" =>
       /\ visitor[1].names = VisitedFieldNames(1)
       /\ Done(1) =>
            \A i \in 1..Len(trace[1]) :
              trace[1][i].hook = "visit_selection_set" =>
                VisitedFieldNamesOf(1, trace[1][i].path)
                  = DeclaredFieldNames(NodeAt(doc, trace[1][i].path).items)
       /\ (Done(1) /\ doc = AbcDoc) => visitor[1].names = <<"a", "b", "c">>

\* A completed walk, by the recording visitor, of a document with several
\* definitions, a variable definition and several recorded fields.
C6_Witness ==
  /\ Done(1)
  /\ visitor[1].kind = "FieldNameRecorder"
  /\ Len(doc.definitions) >= 2
  /\ Invocations(1, "visit_variable_definition") >= 1
  /\ Len(visitor[1].names) >= 2
  /\ \E i \in 1..Len(trace[1]) :
       /\ trace[1][i].hook = "visit_selection_set"
       /\ Len(VisitedFieldNamesOf(1, trace[1][i].path)) >= 2

(***************************************************************************)
(* C7.  The walk is purely observational: no step of it changes the tree,  *)
(* and no step changes the state of a visitor that overrides no hook.      *)
(***************************************************************************)
C7_PurelyObservational ==
  [][/\ doc' = doc
     /\ \A w \in DOMAIN visitor :
          visitor[w].kind = "NoOp" => visitor'[w] = visitor[w]]_vars

\* A completed walk in which 12 different hooks were invoked on a visitor
\* that overrides none and is as it was constructed.
C7_Witness ==
  /\ Done(1)
  /\ visitor[1] = NewVisitor("NoOp")
  /\ Cardinality(HooksInvoked(1)) >= 12

(***************************************************************************)
(* C10.  Dispatch on Selection is exact: every visit_selection(s) is       *)
(* immediately followed by the one hook matching the variant of s, on the  *)
(* node s wraps; visit_field, visit_fragment_spread and                    *)
(* visit_inline_fragment are invoked in no other position; and a walk      *)
(* makes as many visit_selection invocations as invocations of these three *)
(* hooks together.                                                         *)
(***************************************************************************)
VariantHooks == {"visit_field", "visit_fragment_spread", "visit_inline_fragment"}

HookOfVariant(variant) ==
  CASE variant = "Field" -> "visit_field"
    [] variant = "FragmentSpread" -> "visit_fragment_spread"
    [] variant = "InlineFragment" -> "visit_inline_fragment"

VariantInvocations(w) ==
  Invocations(w, "visit_field") + Invocations(w, "visit_fragment_spread")
  + Invocations(w, "visit_inline_fragment")

C10_SelectionDispatchExact ==
  LET n == Len(trace[1])
  IN  /\ n >= 2 /\ trace[1][n - 1].hook = "visit_selection" =>
           Latest(1) = [hook |-> HookOfVariant(NodeAt(doc, trace[1][n - 1].path).variant),
                        path |-> trace[1][n - 1].path \o <<1>>]
      /\ n >= 1 /\ Latest(1).hook \in VariantHooks =>
           /\ n >= 2
           /\ trace[1][n - 1] = [hook |-> "visit_selection", path |-> Parent(Latest(1).path)]
      /\ Done(1) /\ n >= 1 => Latest(1).hook # "visit_selection"
      /\ VariantInvocations(1) <= Invocations(1, "visit_selection")
      /\ Invocations(1, "visit_selection") <= VariantInvocations(1) + 1
      /\ Done(1) => Invocations(1, "visit_selection") = VariantInvocations(1)

\* A completed walk that dispatched on selections of all three variants.
C10_Witness ==
  /\ Done(1)
  /\ VariantHooks \subseteq HooksInvoked(1)
  /\ Invocations(1, "visit_selection") >= 3

(***************************************************************************)
(* C8.  The sequence of hook invocations of a walk is a function of the    *)
(* tree alone: two walks of the same document make the same invocations    *)
(* in the same order whatever the two visitors are, and two visitors of    *)
(* the same kind end in the same state.  The second walk runs after the    *)
(* first, so its trace is at every step a prefix of the first walk's.      *)
(***************************************************************************)
C8_HookSequenceFunctionOfTree ==
  /\ IsPrefix(trace[2], trace[1])
  /\ (Done(1) /\ Done(2)) =>
       /\ trace[1] = trace[2]
       /\ visitor[1].kind = visitor[2].kind => visitor[1] = visitor[2]

\* Both walks completed, one by a visitor that overrides no hook and one by
\* a visitor that overrides every hook, over a tree with nested selections.
C8_Witness ==
  /\ Done(1) /\ Done(2)
  /\ visitor[1].kind = "NoOp"
  /\ visitor[2].kind = "AllHooksCounter"
  /\ visitor[2].count = Len(trace[1])
  /\ "visit_inline_fragment" \in HooksInvoked(1)

(***************************************************************************)
(* C9.  The walk of a document terminates: it reaches the state where the  *)
(* call stack is empty, and stays there, without stopping on the way.      *)
(***************************************************************************)
C9_WalkTerminates == <>[](Done(1))

\* The call stack is empty after a walk through several definitions and an
\* inline fragment.
C9_Witness ==
  /\ Done(1)
  /\ Len(doc.definitions) >= 2
  /\ "visit_inline_fragment" \in HooksInvoked(1)

\* The bound on the depth of the call stack stops no walk: a walk that has
\* not completed can take a step.
StackBoundNotReached == \A w \in DOMAIN stack : Running(w) => ENABLED Next

====
